---- MODULE Spec2Model ----
(***************************************************************************)
(* A model of three pieces of the OED administrative code:                 *)
(*   - Cik.insert / Cik.getAll, the conversion-coefficient table store     *)
(*     (PreferencesComponent.tsx, second half);                            *)
(*   - handleCumulativeReset, the reset-window predicate (part_000);       *)
(*   - the validators and the submit button of PreferencesComponent.       *)
(* Each piece has its own specification; the variables of the other pieces *)
(* stay at their initial values.                                           *)
(***************************************************************************)
EXTENDS Integers, Sequences, FiniteSets, TLC

VARIABLES
    table,      \* the cik table: the sequence of stored rows, in insertion order
    op,         \* per caller: "none", "insert" or "getAll" (the async method running)
    pc,         \* per caller: "idle", "delete", "insert", "query", "resolved", "rejected"
    cik,        \* per caller: the array passed to Cik.insert
    row,        \* per caller: loop variable row of Cik.insert
    column,     \* per caller: loop variable column of Cik.insert
    err,        \* per caller: the error the promise rejected with, or "none"
    result,     \* per caller: the value getAll resolved with
    prior,      \* per caller (history): the table when its Cik.insert was called
    log,        \* per caller (history): the storage operations issued since it was idle
    settled,    \* per caller (history): how its last Cik.insert ended
    after,      \* per caller (history): how the Cik.insert before its last one ended
    lastResolved, \* (history) the caller whose Cik.insert resolved most recently
    \* handleCumulativeReset
    cumulativeReset, \* argument cumulativeReset
    resetStart,      \* argument resetStart, a string
    resetEnd,        \* argument resetEnd, a string
    startTimestamp,  \* argument startTimestamp, a moment
    resetPc,         \* "called" or "returned"
    resetOutcome,    \* how the call ended: a returned value, or nothing yet
    \* PreferencesComponent
    adminPreferences, \* the data of useGetPreferencesQuery, defaultAdminState before there is any
    hasData,          \* whether useGetPreferencesQuery has had a response
    localAdminPref,   \* state localAdminPref
    hasChanges,       \* state hasChanges
    edits,            \* (history) makeLocalChanges calls since the last reset of localAdminPref
    sent,             \* (history) the argument of the submitPreferences call of the last step
    event             \* (history) what the last step of the form was

cikVars == <<table, op, pc, cik, row, column, err, result, prior, log, settled,
             after, lastResolved>>

resetVars == <<cumulativeReset, resetStart, resetEnd, startTimestamp, resetPc,
               resetOutcome>>

formVars == <<adminPreferences, hasData, localAdminPref, hasChanges, edits, sent, event>>

vars == <<cikVars, resetVars, formVars>>

---------------------------------------------------------------------------
(* Bounds of the model.                                                    *)

\* A Cik array has at most MaxCells cells (rows * columns).
MaxCells == 3
\* Two racing calls each get an array of at most MaxRaceCells cells.
MaxRaceCells == 2
\* At most MaxEdits field edits are made before the form is reset.
MaxEdits == 2
\* Small stand-ins for the limits imported from adminSelectors (MAX_VAL is
\* Number.MAX_SAFE_INTEGER and MIN_VAL its negative; dates are counted in years).
MAX_VAL == 2
MAX_ERRORS == 2
MIN_DATE == 1
MAX_DATE == 3

---------------------------------------------------------------------------
(* JavaScript values: a number, NaN, undefined, or a string: the decimal    *)
(* text of a number, the empty string, or some other text.                 *)

Num(n) == [k |-> "num", v |-> n]
NaN == [k |-> "NaN", v |-> 0]
Undefined == [k |-> "undefined", v |-> 0]
Str(n) == [k |-> "str", v |-> n]
EmptyStr == [k |-> "empty", v |-> 0]

\* ToNumber, the coercion that Number(x) and the global isNaN apply.
ToNumber(x) ==
    IF x.k = "num" THEN x
    ELSE IF x.k = "str" THEN Num(x.v)
    ELSE IF x.k = "empty" THEN Num(0)
    ELSE NaN

\* a < b and a > b on the results of Number(): false when either is NaN.
Less(a, b) == a.k = "num" /\ b.k = "num" /\ a.v < b.v

Greater(a, b) == Less(b, a)

\* The global isNaN(x): ToNumber(x) is NaN.
isNaN(x) == ToNumber(x).k = "NaN"

\* The cells of a Cik array: [0] slope, [1] intercept, [2] not used here.
Cells ==
    { <<NaN, NaN, NaN>>,
      <<Undefined, Undefined, Undefined>>,
      <<Num(1), Num(2), Num(0)>> }

\* The r x c arrays over Cells.
Arrays(r, c) == [1..r -> [1..c -> Cells]]

\* The rectangular arrays of at most n cells (and the arrays without cells).
ArraysUpTo(n) ==
    UNION { UNION { Arrays(r, c) : c \in { d \in 0..n : r * d <= n } } : r \in 0..n }

Matrices == ArraysUpTo(MaxCells)

RaceMatrices == ArraysUpTo(MaxRaceCells)

\* The errors a storage operation can fail with.
StorageErrors == {"E1", "E2"}

Callers == {"w1", "w2"}

---------------------------------------------------------------------------
(* The storage boundary: the three SQL files.                              *)

\* cik/delete_all_conversions.sql: every row is removed.
DeleteAllConversions(t) == << >>

\* cik/insert_new_conversion.sql: one row from the named parameters.
InsertNewConversion(t, p) ==
    Append(t, [meter_unit_id |-> p.rowIndex,
               non_meter_unit_id |-> p.columnIndex,
               slope |-> p.slope,
               intercept |-> p.intercept])

\* cik/get_cik.sql: all rows.
GetCik(t) == t

---------------------------------------------------------------------------
(* Cik                                                                      *)

\* The constructor: new Cik(meterUnitId, nonMeterUnitId, slope, intercept).
Cik(meterUnitId, nonMeterUnitId, slope, intercept) ==
    [meterUnitId |-> meterUnitId, nonMeterUnitId |-> nonMeterUnitId,
     slope |-> slope, intercept |-> intercept]

\* Cik.mapRow
mapRow(r) == Cik(r.meter_unit_id, r.non_meter_unit_id, r.slope, r.intercept)

\* rows.map(Cik.mapRow)
MapRows(rows) == [i \in 1..Len(rows) |-> mapRow(rows[i])]

\* Variant: the row and column indices exchanged.
InsertParamsSwapped(m, r, c) ==
    [rowIndex |-> c, columnIndex |-> r,
     slope |-> m[r + 1][c + 1][1], intercept |-> m[r + 1][c + 1][2]]

\* The parameters of the insert issued for cell (r, c) of array m (0-based).
InsertParams(m, r, c) ==
    [rowIndex |-> r, columnIndex |-> c,
     slope |-> m[r + 1][c + 1][1], intercept |-> m[r + 1][c + 1][2]]

\* The test of the loop body: there is a conversion in cell (r, c).
HasConversion(m, r, c) == ~isNaN(m[r + 1][c + 1][1])

\* The two for loops, run from (r, c) up to the next await: the position of the
\* next cell with a conversion, or the end of the array.
RECURSIVE NextConversion(_, _, _)
NextConversion(m, r, c) ==
    IF r >= Len(m) THEN [end |-> TRUE, row |-> r, column |-> c]
    ELSE IF c >= Len(m[r + 1]) THEN NextConversion(m, r + 1, 0)
    ELSE IF HasConversion(m, r, c) THEN [end |-> FALSE, row |-> r, column |-> c]
    ELSE NextConversion(m, r, c + 1)

\* The synchronous part of Cik.insert after an await resumes at (r, c): run the
\* loops to the next insert, or return.
Resume(w, r, c) ==
    LET n == NextConversion(cik[w], r, c) IN
    /\ row' = [row EXCEPT ![w] = n.row]
    /\ column' = [column EXCEPT ![w] = n.column]
    /\ pc' = [pc EXCEPT ![w] = IF n.end THEN "resolved" ELSE "insert"]
    /\ settled' = [settled EXCEPT ![w] = IF n.end THEN "resolved" ELSE @]
    /\ lastResolved' = IF n.end THEN w ELSE lastResolved

\* An awaited storage operation failed with e: the async method rejects with e.
Reject(w, e) ==
    /\ pc' = [pc EXCEPT ![w] = "rejected"]
    /\ err' = [err EXCEPT ![w] = e]
    /\ settled' = [settled EXCEPT ![w] = IF op[w] = "insert" THEN "rejected" ELSE @]
    /\ UNCHANGED lastResolved

Settled(w) == pc[w] \in {"resolved", "rejected"}

\* Cik.insert(m, conn) is called; it runs up to its first await (the delete).
insert_call(w, m) ==
    /\ pc[w] = "idle"
    /\ op' = [op EXCEPT ![w] = "insert"]
    /\ pc' = [pc EXCEPT ![w] = "delete"]
    /\ cik' = [cik EXCEPT ![w] = m]
    /\ row' = [row EXCEPT ![w] = 0]
    /\ column' = [column EXCEPT ![w] = 0]
    /\ err' = [err EXCEPT ![w] = "none"]
    /\ prior' = [prior EXCEPT ![w] = table]
    /\ result' = [result EXCEPT ![w] = << >>]
    /\ log' = [log EXCEPT ![w] = << >>]
    /\ after' = [after EXCEPT ![w] = settled[w]]
    /\ UNCHANGED <<table, settled, lastResolved>>
    /\ UNCHANGED <<resetVars, formVars>>

\* Variant: the delete removes nothing.
delete_keep(w) ==
    /\ pc[w] = "delete"
    /\ table' = table
    /\ log' = [log EXCEPT ![w] = Append(@, [op |-> "delete", row |-> 0, column |-> 0, outcome |-> "ok"])]
    /\ Resume(w, 0, 0)
    /\ UNCHANGED <<op, cik, err, result, prior, after>>
    /\ UNCHANGED <<resetVars, formVars>>

\* The delete succeeds; the loops run to the first insert.
delete_ok(w) ==
    /\ pc[w] = "delete"
    /\ table' = DeleteAllConversions(table)
    /\ log' = [log EXCEPT ![w] = Append(@, [op |-> "delete", row |-> 0, column |-> 0, outcome |-> "ok"])]
    /\ Resume(w, 0, 0)
    /\ UNCHANGED <<op, cik, err, result, prior, after>>
    /\ UNCHANGED <<resetVars, formVars>>

\* The delete fails with e.
delete_fail(w, e) ==
    /\ pc[w] = "delete"
    /\ log' = [log EXCEPT ![w] = Append(@, [op |-> "delete", row |-> 0, column |-> 0, outcome |-> e])]
    /\ Reject(w, e)
    /\ UNCHANGED <<table, op, cik, row, column, result, prior, after>>
    /\ UNCHANGED <<resetVars, formVars>>

\* The insert for cell (row, column) succeeds; the loops run to the next one.
insert_ok(w) ==
    /\ pc[w] = "insert"
    /\ table' = InsertNewConversion(table, InsertParams(cik[w], row[w], column[w]))
    /\ log' = [log EXCEPT ![w] = Append(@, [op |-> "insert", row |-> row[w], column |-> column[w], outcome |-> "ok"])]
    /\ Resume(w, row[w], column[w] + 1)
    /\ UNCHANGED <<op, cik, err, result, prior, after>>
    /\ UNCHANGED <<resetVars, formVars>>

\* Variant: the failure is swallowed and the loop goes on.
insert_fail_continue(w, e) ==
    /\ pc[w] = "insert"
    /\ log' = [log EXCEPT ![w] = Append(@, [op |-> "insert", row |-> row[w], column |-> column[w], outcome |-> e])]
    /\ Resume(w, row[w], column[w] + 1)
    /\ UNCHANGED <<table, op, cik, err, result, prior, after>>
    /\ UNCHANGED <<resetVars, formVars>>

\* Variant: the failure restores the previous contents, as a transaction would.
insert_fail_rollback(w, e) ==
    /\ pc[w] = "insert"
    /\ log' = [log EXCEPT ![w] = Append(@, [op |-> "insert", row |-> row[w], column |-> column[w], outcome |-> e])]
    /\ Reject(w, e)
    /\ table' = prior[w]
    /\ UNCHANGED <<op, cik, row, column, result, prior, after>>
    /\ UNCHANGED <<resetVars, formVars>>

\* The insert for cell (row, column) fails with e.
insert_fail(w, e) ==
    /\ pc[w] = "insert"
    /\ log' = [log EXCEPT ![w] = Append(@, [op |-> "insert", row |-> row[w], column |-> column[w], outcome |-> e])]
    /\ Reject(w, e)
    /\ UNCHANGED <<table, op, cik, row, column, result, prior, after>>
    /\ UNCHANGED <<resetVars, formVars>>

\* Cik.getAll(conn) is called, by a caller that has no call running or right
\* after its Cik.insert resolved; it runs up to its await (the query).
getAll_call(w) ==
    /\ \/ pc[w] = "idle"
       \/ op[w] = "insert" /\ pc[w] = "resolved"
    /\ op' = [op EXCEPT ![w] = "getAll"]
    /\ pc' = [pc EXCEPT ![w] = "query"]
    /\ UNCHANGED <<table, cik, row, column, err, result, prior, log, settled, after,
                   lastResolved>>
    /\ UNCHANGED <<resetVars, formVars>>

\* The query succeeds; getAll resolves with the mapped rows.
query_ok(w) ==
    /\ pc[w] = "query"
    /\ result' = [result EXCEPT ![w] = MapRows(GetCik(table))]
    /\ pc' = [pc EXCEPT ![w] = "resolved"]
    /\ log' = [log EXCEPT ![w] = Append(@, [op |-> "query", row |-> 0, column |-> 0, outcome |-> "ok"])]
    /\ UNCHANGED <<table, op, cik, row, column, err, prior, settled, after,
                   lastResolved>>
    /\ UNCHANGED <<resetVars, formVars>>

\* The query fails with e.
query_fail(w, e) ==
    /\ pc[w] = "query"
    /\ log' = [log EXCEPT ![w] = Append(@, [op |-> "query", row |-> 0, column |-> 0, outcome |-> e])]
    /\ Reject(w, e)
    /\ UNCHANGED <<table, op, cik, row, column, result, prior, after>>
    /\ UNCHANGED <<resetVars, formVars>>

\* The caller is done with the settled promise of its call.
Return(w) ==
    /\ Settled(w)
    /\ op' = [op EXCEPT ![w] = "none"]
    /\ pc' = [pc EXCEPT ![w] = "idle"]
    /\ cik' = [cik EXCEPT ![w] = << >>]
    /\ row' = [row EXCEPT ![w] = 0]
    /\ column' = [column EXCEPT ![w] = 0]
    /\ err' = [err EXCEPT ![w] = "none"]
    /\ result' = [result EXCEPT ![w] = << >>]
    /\ prior' = [prior EXCEPT ![w] = << >>]
    /\ log' = [log EXCEPT ![w] = << >>]
    /\ after' = [after EXCEPT ![w] = "none"]
    /\ lastResolved' = "none"
    /\ UNCHANGED <<table, settled>>
    /\ UNCHANGED <<resetVars, formVars>>

\* The tables a first call may find.
PriorTables ==
    { << >>,
      <<[meter_unit_id |-> 0, non_meter_unit_id |-> 0, slope |-> Num(3), intercept |-> Num(4)]>>,
      <<[meter_unit_id |-> 0, non_meter_unit_id |-> 1, slope |-> Num(1), intercept |-> Num(2)],
        [meter_unit_id |-> 5, non_meter_unit_id |-> 2, slope |-> Num(1), intercept |-> Num(2)]>> }

CikStart(tables) ==
    /\ table \in tables
    /\ op = [w \in Callers |-> "none"]
    /\ pc = [w \in Callers |-> "idle"]
    /\ cik = [w \in Callers |-> << >>]
    /\ row = [w \in Callers |-> 0]
    /\ column = [w \in Callers |-> 0]
    /\ err = [w \in Callers |-> "none"]
    /\ result = [w \in Callers |-> << >>]
    /\ prior = [w \in Callers |-> << >>]
    /\ log = [w \in Callers |-> << >>]
    /\ settled = [w \in Callers |-> "none"]
    /\ after = [w \in Callers |-> "none"]
    /\ lastResolved = "none"

---------------------------------------------------------------------------
(* moment, as far as handleCumulativeReset uses it.                        *)

\* A moment: a calendar date and a time of day, or an invalid moment.
Moment(y, mo, d, h, mi, sec, ms) ==
    [valid |-> TRUE, y |-> y, mo |-> mo, d |-> d, h |-> h, mi |-> mi, sec |-> sec, ms |-> ms]

InvalidMoment ==
    [valid |-> FALSE, y |-> 0, mo |-> 0, d |-> 0, h |-> 0, mi |-> 0, sec |-> 0, ms |-> 0]

\* moment(m): a clone of the moment m.
Clone(m) == m

\* The order of m.valueOf(), in two parts: the date (months and days are given
\* room for 12 and 31), then the milliseconds since the start of that date.
DateOf(m) == (m.y * 12 + m.mo) * 31 + m.d

MsOfDay(m) == (((m.h * 60 + m.mi) * 60 + m.sec) * 1000) + m.ms

\* a.valueOf() < b.valueOf(), a.valueOf() = b.valueOf()
ValueLess(a, b) ==
    \/ DateOf(a) < DateOf(b)
    \/ DateOf(a) = DateOf(b) /\ MsOfDay(a) < MsOfDay(b)

ValueSame(a, b) == DateOf(a) = DateOf(b) /\ MsOfDay(a) = MsOfDay(b)

\* a.isSameOrAfter(b): false when either moment is invalid.
isSameOrAfter(a, b) == a.valid /\ b.valid /\ (ValueSame(a, b) \/ ValueLess(b, a))

\* a.isBefore(b), a.isSameOrBefore(b): false when either moment is invalid.
isBefore(a, b) == a.valid /\ b.valid /\ ValueLess(a, b)

isSameOrBefore(a, b) == a.valid /\ b.valid /\ (ValueSame(a, b) \/ ValueLess(a, b))

\* m.format('MM-DD-YYYY'): the three numbers of the date in that order, or the
\* text "Invalid date" (a string with no number in it).
FormatMMDDYYYY(m) ==
    IF m.valid THEN [kind |-> "numbers", n |-> <<m.mo, m.d, m.y>>]
    ELSE [kind |-> "text", n |-> << >>]

\* A time-of-day string: three numbers "h:m:s", or a text with no number in it.
TimeString(h, mi, sec) == [kind |-> "numbers", n |-> <<h, mi, sec>>]

TextString == [kind |-> "text", n |-> << >>]

\* a + " " + b
Concat(a, b) == [kind |-> "numbers", n |-> a.n \o b.n]

\* The array moment fills from the tokens MM DD YYYY HH mm ss of the format, each
\* token taking the next number of the string: a token that finds no number
\* leaves its default (0 for the time of day; no date at all makes the moment
\* invalid).
ParsedField(str, i) == IF i <= Len(str.n) THEN str.n[i] ELSE 0

\* The overflow check of the parsed array.
Overflow(mo, d, h, mi, sec) ==
    \/ mo < 1 \/ mo > 12
    \/ d < 1 \/ d > 31
    \/ h < 0 \/ h > 24 \/ (h = 24 /\ (mi # 0 \/ sec # 0))
    \/ mi < 0 \/ mi > 59
    \/ sec < 0 \/ sec > 59

\* moment(str, "MM/DD/YYYY HH:mm:ss"), not strict: the separators of the string
\* need not be those of the format.
ParseMMDDYYYYHHmmss(str) ==
    LET mo == ParsedField(str, 1)
        d == ParsedField(str, 2)
        y == ParsedField(str, 3)
        h == ParsedField(str, 4)
        mi == ParsedField(str, 5)
        sec == ParsedField(str, 6)
    IN IF Len(str.n) = 0 \/ Overflow(mo, d, h, mi, sec) THEN InvalidMoment
       ELSE Moment(y, mo, d, h, mi, sec, 0)

---------------------------------------------------------------------------
(* handleCumulativeReset                                                   *)

Returned(v) == [kind |-> "returned", value |-> v]

Thrown(e) == [kind |-> "thrown", value |-> e]

NoOutcome == [kind |-> "none", value |-> FALSE]

\* Variant: the end of the window is excluded.
InWindowExclusiveEnd(testStart, testResetStart, testResetEnd) ==
    isSameOrAfter(testStart, testResetStart) /\ isBefore(testStart, testResetEnd)

\* Variant: one of the two comparisons is enough, as for a window that wraps.
InWindowEither(testStart, testResetStart, testResetEnd) ==
    isSameOrAfter(testStart, testResetStart) \/ isSameOrBefore(testStart, testResetEnd)

\* The window test of line 26.
InWindow(testStart, testResetStart, testResetEnd) ==
    isSameOrAfter(testStart, testResetStart) /\ isSameOrBefore(testStart, testResetEnd)

\* Lines 23 to 30: the branch taken when cumulativeReset is true.
WindowBranch(rStart, rEnd, ts) ==
    LET testStart == Clone(ts)
        testResetStart == ParseMMDDYYYYHHmmss(Concat(FormatMMDDYYYY(testStart), rStart))
        testResetEnd == ParseMMDDYYYYHHmmss(Concat(FormatMMDDYYYY(testStart), rEnd))
    IN IF InWindow(testStart, testResetStart, testResetEnd) THEN Returned(TRUE)
       ELSE Returned(FALSE)

\* Variant: cumulativeReset is not tested.
handleCumulativeResetIgnoringFlag(cr, rStart, rEnd, ts) == WindowBranch(rStart, rEnd, ts)

\* Variant: malformed arguments raise a validation error.
handleCumulativeResetValidating(cr, rStart, rEnd, ts) ==
    IF ~cr THEN Returned(FALSE)
    ELSE IF ~ts.valid \/ rStart.kind = "text" \/ rEnd.kind = "text"
            \/ ~ParseMMDDYYYYHHmmss(Concat(FormatMMDDYYYY(ts), rStart)).valid
            \/ ~ParseMMDDYYYYHHmmss(Concat(FormatMMDDYYYY(ts), rEnd)).valid
         THEN Thrown("ValidationError")
    ELSE WindowBranch(rStart, rEnd, ts)

\* The function, as the outcome of a call.
handleCumulativeReset(cr, rStart, rEnd, ts) ==
    IF ~cr THEN Returned(FALSE)
    ELSE WindowBranch(rStart, rEnd, ts)

\* The times of day of the inputs: well-formed ones.
TimesOfDay ==
    { <<0, 0, 0>>, <<1, 0, 0>>, <<12, 0, 0>>, <<23, 0, 0>>, <<23, 30, 0>>, <<23, 59, 59>> }

\* Strings that are not a time of day: a field out of range, or no number.
MalformedTimeStrings == { TimeString(25, 0, 0), TimeString(12, 60, 0), TextString }

WellFormedTimeStrings == { TimeString(t[1], t[2], t[3]) : t \in TimesOfDay }

TimeStrings == WellFormedTimeStrings \cup MalformedTimeStrings

Dates == { <<2023, 5, 1>>, <<2023, 12, 31>> }

Milliseconds == {0, 500}

ValidTimestamps ==
    { Moment(dt[1], dt[2], dt[3], t[1], t[2], t[3], ms) :
        dt \in Dates, t \in TimesOfDay, ms \in Milliseconds }

Timestamps == ValidTimestamps \cup {InvalidMoment}

ResetIdle ==
    /\ cumulativeReset = FALSE
    /\ resetStart = TextString
    /\ resetEnd = TextString
    /\ startTimestamp = InvalidMoment
    /\ resetPc = "idle"
    /\ resetOutcome = NoOutcome

ResetArguments ==
    /\ cumulativeReset \in BOOLEAN
    /\ resetStart \in TimeStrings
    /\ resetEnd \in TimeStrings
    /\ startTimestamp \in Timestamps
    /\ resetPc = "called"
    /\ resetOutcome = NoOutcome

\* The call runs to its end.
Call_handleCumulativeReset ==
    /\ resetPc = "called"
    /\ resetOutcome' = handleCumulativeReset(cumulativeReset, resetStart, resetEnd, startTimestamp)
    /\ resetPc' = "returned"
    /\ UNCHANGED <<cumulativeReset, resetStart, resetEnd, startTimestamp>>
    /\ UNCHANGED <<cikVars, formVars>>

ResetNext == Call_handleCumulativeReset

CikIdle == CikStart({<< >>})


---------------------------------------------------------------------------
(* PreferencesComponent: the preferences form.                             *)

MIN_VAL == -MAX_VAL

\* A date string, here a year, and a string that is no date.
DateStr(y) == [k |-> "date", v |-> y]

NoDateStr == [k |-> "text", v |-> 0]

\* moment(str): the moment the string names, or an invalid moment.
momentOf(str) == IF str.k = "date" THEN Moment(str.v, 1, 1, 0, 0, 0, 0) ELSE InvalidMoment

MIN_DATE_MOMENT == momentOf(DateStr(MIN_DATE))

MAX_DATE_MOMENT == momentOf(DateStr(MAX_DATE))

\* A duration string "hh:mm:ss" (here its seconds, signed), a string with a
\* fraction in a unit that is not the last one, and any other text.
DurationStr(sec) == [k |-> "duration", v |-> sec]

FractionStr == [k |-> "fraction", v |-> 0]

NoDurationStr == [k |-> "text", v |-> 0]

\* moment.duration(str): other text gives the zero duration, which is valid.
durationOf(str) ==
    IF str.k = "duration" THEN [valid |-> TRUE, seconds |-> str.v]
    ELSE IF str.k = "fraction" THEN [valid |-> FALSE, seconds |-> 0]
    ELSE [valid |-> TRUE, seconds |-> 0]

\* The keys of PreferenceRequestItem that the model follows: the nine that the
\* validators read, and displayTitle for the others.
Keys ==
    { "defaultMeterReadingFrequency", "defaultMeterMinimumValue", "defaultMeterMaximumValue",
      "defaultMeterMinimumDate", "defaultMeterMaximumDate", "defaultMeterReadingGap",
      "defaultMeterMaximumErrors", "defaultFileSizeLimit", "defaultWarningFileSize",
      "displayTitle" }

invalidReadingFreq(pref) ==
    LET frequency == durationOf(pref.defaultMeterReadingFrequency)
    IN ~frequency.valid \/ frequency.seconds <= 0

invalidMinValue(pref) ==
    LET min == ToNumber(pref.defaultMeterMinimumValue)
        max == ToNumber(pref.defaultMeterMaximumValue)
    IN Less(min, Num(MIN_VAL)) \/ Greater(min, max)

invalidMaxValue(pref) ==
    LET min == ToNumber(pref.defaultMeterMinimumValue)
        max == ToNumber(pref.defaultMeterMaximumValue)
    IN Greater(max, Num(MAX_VAL)) \/ Greater(min, max)

invalidMinDate(pref) ==
    LET minMoment == momentOf(pref.defaultMeterMinimumDate)
        maxMoment == momentOf(pref.defaultMeterMaximumDate)
    IN \/ ~minMoment.valid
       \/ ~isSameOrAfter(minMoment, MIN_DATE_MOMENT)
       \/ ~isSameOrBefore(minMoment, maxMoment)

invalidMaxDate(pref) ==
    LET minMoment == momentOf(pref.defaultMeterMinimumDate)
        maxMoment == momentOf(pref.defaultMeterMaximumDate)
    IN \/ ~maxMoment.valid
       \/ ~isSameOrBefore(maxMoment, MAX_DATE_MOMENT)
       \/ ~isSameOrAfter(maxMoment, minMoment)

invalidReadingGap(pref) == Less(ToNumber(pref.defaultMeterReadingGap), Num(0))

\* Variant: no upper limit on the maximum errors.
invalidMeterErrorsNoMaximum(pref) == Less(ToNumber(pref.defaultMeterMaximumErrors), Num(0))

invalidMeterErrors(pref) ==
    \/ Less(ToNumber(pref.defaultMeterMaximumErrors), Num(0))
    \/ Greater(ToNumber(pref.defaultMeterMaximumErrors), Num(MAX_ERRORS))

invalidFileSizeLimit(pref) == Less(ToNumber(pref.defaultFileSizeLimit), Num(0))

invalidWarningFileSize(pref) ==
    \/ Less(ToNumber(pref.defaultWarningFileSize), Num(0))
    \/ Greater(ToNumber(pref.defaultWarningFileSize), ToNumber(pref.defaultFileSizeLimit))

\* The disabled attribute of the submit button.
SubmitDisabled ==
    \/ ~hasChanges
    \/ invalidReadingFreq(localAdminPref)
    \/ invalidMinValue(localAdminPref)
    \/ invalidMaxValue(localAdminPref)
    \/ invalidMinDate(localAdminPref)
    \/ invalidMaxDate(localAdminPref)
    \/ invalidReadingGap(localAdminPref)
    \/ invalidMeterErrors(localAdminPref)
    \/ invalidFileSizeLimit(localAdminPref)
    \/ invalidWarningFileSize(localAdminPref)

\* The disabled attribute of the discard button.
DiscardDisabled == ~hasChanges

\* lodash cloneDeep and isEqual, on values.
cloneDeep(pref) == pref

isEqual(a, b) == \A key \in Keys : a[key] = b[key]

\* The second effect: hasChanges is what the comparison of the two gives.
ChangesEffect(admin, local) == ~isEqual(admin, local)

\* The values a number input hands to onChange: the empty string or the text
\* of a number.
NumberInputValues(lo, hi) == {EmptyStr} \cup { Str(n) : n \in {lo - 1, lo, hi, hi + 1} }

\* The values e.target.value can take for each key.
InputValues(key) ==
    CASE key = "defaultMeterReadingFrequency" ->
            { DurationStr(900), DurationStr(-900), FractionStr, NoDurationStr }
      [] key \in {"defaultMeterMinimumValue", "defaultMeterMaximumValue"} ->
            NumberInputValues(MIN_VAL, MAX_VAL)
      [] key \in {"defaultMeterMinimumDate", "defaultMeterMaximumDate"} ->
            { NoDateStr } \cup { DateStr(y) : y \in {MIN_DATE - 1, MIN_DATE, MAX_DATE, MAX_DATE + 1} }
      [] key = "defaultMeterReadingGap" -> NumberInputValues(0, 1)
      [] key = "defaultMeterMaximumErrors" -> NumberInputValues(0, MAX_ERRORS)
      [] key \in {"defaultFileSizeLimit", "defaultWarningFileSize"} -> NumberInputValues(0, 1)
      [] OTHER -> { [k |-> "text", v |-> 1], [k |-> "text", v |-> 2] }

\* defaultAdminState, and another answer of the server.
FetchedPreferences ==
    { [defaultMeterReadingFrequency |-> DurationStr(900),
       defaultMeterMinimumValue |-> Num(MIN_VAL),
       defaultMeterMaximumValue |-> Num(MAX_VAL),
       defaultMeterMinimumDate |-> DateStr(MIN_DATE),
       defaultMeterMaximumDate |-> DateStr(MAX_DATE),
       defaultMeterReadingGap |-> Num(0),
       defaultMeterMaximumErrors |-> Num(MAX_ERRORS),
       defaultFileSizeLimit |-> Num(1),
       defaultWarningFileSize |-> Num(0),
       displayTitle |-> [k |-> "text", v |-> 0]],
      [defaultMeterReadingFrequency |-> DurationStr(900),
       defaultMeterMinimumValue |-> Num(0),
       defaultMeterMaximumValue |-> Num(0),
       defaultMeterMinimumDate |-> DateStr(MIN_DATE),
       defaultMeterMaximumDate |-> DateStr(MIN_DATE),
       defaultMeterReadingGap |-> Num(1),
       defaultMeterMaximumErrors |-> Num(0),
       defaultFileSizeLimit |-> Num(1),
       defaultWarningFileSize |-> Num(1),
       displayTitle |-> [k |-> "text", v |-> 1]] }

NoSubmission == [k |-> "none"]

\* An input's onChange: makeLocalChanges(key, value), then the effects.
makeLocalChanges(key, value) ==
    /\ edits < MaxEdits
    /\ edits' = edits + 1
    /\ localAdminPref' = [localAdminPref EXCEPT ![key] = value]
    /\ hasChanges' = ChangesEffect(adminPreferences, localAdminPref')
    /\ sent' = NoSubmission
    /\ event' = "edit"
    /\ UNCHANGED <<adminPreferences, hasData>>
    /\ UNCHANGED <<cikVars, resetVars>>

\* A click on the discard button: discardChanges, then the effects.
discardChanges ==
    /\ ~DiscardDisabled
    /\ localAdminPref' = cloneDeep(adminPreferences)
    /\ hasChanges' = ChangesEffect(adminPreferences, localAdminPref')
    /\ edits' = 0
    /\ sent' = NoSubmission
    /\ event' = "discard"
    /\ UNCHANGED <<adminPreferences, hasData>>
    /\ UNCHANGED <<cikVars, resetVars>>

\* A click on the submit button: submitPreferences(localAdminPref).
submitClick ==
    /\ ~SubmitDisabled
    /\ sent' = localAdminPref
    /\ event' = "submit"
    /\ UNCHANGED <<adminPreferences, hasData, localAdminPref, hasChanges, edits>>
    /\ UNCHANGED <<cikVars, resetVars>>

\* A response of the preferences query that makes the hook of line 30 return
\* a new object (the first response, or a re-fetch with other data): both
\* effects run.
queryResponse(data) ==
    /\ ~hasData \/ ~isEqual(data, adminPreferences)
    /\ adminPreferences' = data
    /\ hasData' = TRUE
    /\ localAdminPref' = cloneDeep(adminPreferences')
    /\ hasChanges' = ChangesEffect(adminPreferences', localAdminPref')
    /\ edits' = 0
    /\ sent' = NoSubmission
    /\ event' = "response"
    /\ UNCHANGED <<cikVars, resetVars>>

\* A re-fetch whose data is deep-equal to the data the hook already holds: the
\* query cache shares structure with its previous result, so the hook of line
\* 30 returns the same object; no dependency of the effects of lines 37 and 39
\* has changed and neither runs.
queryResponseUnchanged(data) ==
    /\ hasData
    /\ isEqual(data, adminPreferences)
    /\ sent' = NoSubmission
    /\ event' = "response"
    /\ UNCHANGED <<adminPreferences, hasData, localAdminPref, hasChanges, edits>>
    /\ UNCHANGED <<cikVars, resetVars>>

FormStart(fetched) ==
    /\ adminPreferences \in fetched
    /\ hasData = FALSE
    /\ localAdminPref = cloneDeep(adminPreferences)
    /\ hasChanges = FALSE
    /\ edits = 0
    /\ sent = NoSubmission
    /\ event = "mount"

DefaultAdminState == { p \in FetchedPreferences : p.displayTitle.v = 0 }

FormIdle == FormStart(DefaultAdminState)

FormInit == CikIdle /\ ResetIdle /\ FormStart(DefaultAdminState)

FormNext ==
    \/ \E key \in Keys : \E value \in InputValues(key) : makeLocalChanges(key, value)
    \/ discardChanges
    \/ submitClick
    \/ \E data \in FetchedPreferences : queryResponse(data)
    \/ \E data \in FetchedPreferences : queryResponseUnchanged(data)

SpecForm == FormInit /\ [][FormNext]_vars

---------------------------------------------------------------------------
(* The specifications of the table store and of the reset window.          *)

ResetInit == CikIdle /\ ResetArguments /\ FormIdle

SpecReset == ResetInit /\ [][ResetNext]_vars

CikInit == CikStart(PriorTables) /\ ResetIdle /\ FormIdle

\* One caller: every call settles before the next is made.
CikNext ==
    \/ \E m \in Matrices : insert_call("w1", m)
    \/ delete_ok("w1")
    \/ \E e \in StorageErrors : delete_fail("w1", e)
    \/ insert_ok("w1")
    \/ \E e \in StorageErrors : insert_fail("w1", e)
    \/ getAll_call("w1")
    \/ query_ok("w1")
    \/ \E e \in StorageErrors : query_fail("w1", e)
    \/ Return("w1")

SpecCik == CikInit /\ [][CikNext]_vars

\* Two callers, each calling Cik.insert once; their awaited steps interleave.
RaceNext ==
    \/ \E w \in Callers, m \in RaceMatrices : insert_call(w, m)
    \/ \E w \in Callers : delete_ok(w)
    \/ \E w \in Callers : insert_ok(w)

SpecRace == CikInit /\ [][RaceNext]_vars

---------------------------------------------------------------------------
(* What the contract of replaceAll says of an array, stated on the array.  *)

Range(s) == { s[i] : i \in 1..Len(s) }

\* The cell positions (row, column) of array m from row r on, row by row.
RECURSIVE RowMajor(_, _)
RowMajor(m, r) ==
    IF r >= Len(m) THEN << >>
    ELSE [c \in 1..Len(m[r + 1]) |-> <<r, c - 1>>] \o RowMajor(m, r + 1)

\* The slope of the cell at p is a defined, non-NaN number.
Defined(m, p) == m[p[1] + 1][p[2] + 1][1].k = "num"

DefinedPositions(m) == SelectSeq(RowMajor(m, 0), LAMBDA p : Defined(m, p))

\* One row per defined cell, in row-major order.
ExpectedRows(m) ==
    LET ps == DefinedPositions(m) IN
    [i \in 1..Len(ps) |->
        [meter_unit_id |-> ps[i][1], non_meter_unit_id |-> ps[i][2],
         slope |-> m[ps[i][1] + 1][ps[i][2] + 1][1],
         intercept |-> m[ps[i][1] + 1][ps[i][2] + 1][2]]]

\* The same, as the coefficients getAll returns.
ExpectedCoefficients(m) ==
    LET ps == DefinedPositions(m) IN
    [i \in 1..Len(ps) |->
        [meterUnitId |-> ps[i][1], nonMeterUnitId |-> ps[i][2],
         slope |-> m[ps[i][1] + 1][ps[i][2] + 1][1],
         intercept |-> m[ps[i][1] + 1][ps[i][2] + 1][2]]]

\* s and t hold the same elements, each the same number of times.
SameElements(s, t) ==
    /\ Len(s) = Len(t)
    /\ \A x \in Range(s) \cup Range(t) :
          Cardinality({i \in 1..Len(s) : s[i] = x}) = Cardinality({i \in 1..Len(t) : t[i] = x})

IsPrefix(s, t) == Len(s) <= Len(t) /\ \A i \in 1..Len(s) : s[i] = t[i]

\* The caller's getAll follows its own resolved Cik.insert.
FollowsInsert(w) == op[w] = "getAll" /\ log[w] # << >> /\ log[w][1].op = "delete"

OkInserts(w) == Cardinality({i \in 1..Len(log[w]) : log[w][i].op = "insert" /\ log[w][i].outcome = "ok"})

---------------------------------------------------------------------------
(* The claims.                                                             *)

\* C1: when Cik.insert resolves (one writer, any prior contents) the table holds
\* exactly one row per cell whose slope is a defined, non-NaN number, with
\* meter_unit_id the row index, non_meter_unit_id the column index, slope cell[0]
\* and intercept cell[1], and no other row; a getAll that follows resolves with
\* exactly those coefficients, one per stored row.
C1_ReplaceAllThenGetAll ==
    /\ (op["w1"] = "insert" /\ pc["w1"] = "resolved")
          => SameElements(table, ExpectedRows(cik["w1"]))
    /\ (FollowsInsert("w1") /\ pc["w1"] = "resolved")
          => /\ SameElements(result["w1"], ExpectedCoefficients(cik["w1"]))
             /\ Len(result["w1"]) = Len(table)

\* C1 witness: on a table that held foreign rows, an array with a skipped cell and
\* two defined cells was inserted and read back.
C1_Witness ==
    /\ FollowsInsert("w1") /\ pc["w1"] = "resolved"
    /\ Len(prior["w1"]) = 2
    /\ Len(result["w1"]) = 2
    /\ Len(RowMajor(cik["w1"], 0)) = 3
    /\ \E i \in 1..2 : result["w1"][i].meterUnitId # result["w1"][i].nonMeterUnitId

\* C2: when a Cik.insert resolves after an earlier Cik.insert that resolved, the
\* table holds only rows of the last array: a row the earlier array left that is
\* not a defined cell of the last array is gone; every call issues its delete
\* before its first insert.
C2_FullReplace ==
    (op["w1"] = "insert" /\ pc["w1"] = "resolved" /\ after["w1"] = "resolved")
        => /\ Range(table) = Range(ExpectedRows(cik["w1"]))
           /\ Len(table) = Len(ExpectedRows(cik["w1"]))
           /\ \A r \in Range(prior["w1"]) \ Range(ExpectedRows(cik["w1"])) : r \notin Range(table)
           /\ log["w1"][1].op = "delete"
           /\ \A i \in 2..Len(log["w1"]) : log["w1"][i].op = "insert"

\* C2 witness: the second call replaced a non-empty table, left by the first, by
\* different rows.
C2_Witness ==
    /\ op["w1"] = "insert" /\ pc["w1"] = "resolved" /\ after["w1"] = "resolved"
    /\ table # << >>
    /\ \E r \in Range(prior["w1"]) : r \notin Range(table)

\* C3: when two overlapping Cik.insert calls have both resolved, the table holds
\* the defined cells of the array of the call that resolved last. (Stated for
\* the tables in which no two rows have the same pair of unit ids, so that a
\* primary key on the pair would not have failed an insert.)
C3_LastCompletedWins ==
    ( /\ \A w \in Callers : op[w] = "insert" /\ pc[w] = "resolved"
      /\ \A i, j \in 1..Len(table) :
            (table[i].meter_unit_id = table[j].meter_unit_id
             /\ table[i].non_meter_unit_id = table[j].non_meter_unit_id) => i = j )
        => SameElements(table, ExpectedRows(cik[lastResolved]))

---------------------------------------------------------------------------
(* The reset window, stated on the inputs.                                  *)

WellFormed(str) == str \in WellFormedTimeStrings

\* The time of day a well-formed string names, in milliseconds.
WindowMs(str) == ((str.n[1] * 60 + str.n[2]) * 60 + str.n[3]) * 1000

\* The string names an hour, minute or second that does not exist.
OutOfRange(str) ==
    /\ str.kind = "numbers"
    /\ (str.n[1] > 24 \/ str.n[2] > 59 \/ str.n[3] > 59)

CalledWithReset == resetPc = "returned" /\ cumulativeReset

\* C4: with cumulativeReset false the function returns false, whatever the
\* timestamp and the window strings are, malformed ones included.
C4_DisabledReturnsFalse ==
    (resetPc = "returned" /\ ~cumulativeReset) => resetOutcome = Returned(FALSE)

\* C4 witness: a call with cumulativeReset false whose timestamp lies in the window.
C4_Witness ==
    /\ resetPc = "returned" /\ ~cumulativeReset
    /\ WellFormed(resetStart) /\ WellFormed(resetEnd) /\ startTimestamp.valid
    /\ WindowMs(resetStart) < MsOfDay(startTimestamp)
    /\ MsOfDay(startTimestamp) < WindowMs(resetEnd)

\* C5: with cumulativeReset true, well-formed window strings and a valid
\* timestamp t, the function returns true exactly when start <= t <= end, start
\* and end being the two times of day on the date of t; both ends are included.
C5_InclusiveWindow ==
    (CalledWithReset /\ WellFormed(resetStart) /\ WellFormed(resetEnd) /\ startTimestamp.valid)
        => resetOutcome =
             Returned(/\ WindowMs(resetStart) <= MsOfDay(startTimestamp)
                      /\ MsOfDay(startTimestamp) <= WindowMs(resetEnd))

\* C5 witness: the timestamp is exactly the end of a window that is not a point.
C5_Witness ==
    /\ CalledWithReset /\ WellFormed(resetStart) /\ WellFormed(resetEnd)
    /\ startTimestamp.valid
    /\ WindowMs(resetStart) < WindowMs(resetEnd)
    /\ MsOfDay(startTimestamp) = WindowMs(resetEnd)
    /\ resetOutcome = Returned(TRUE)

\* C6: with cumulativeReset true and a window whose end is earlier in the day
\* than its start, the function returns false for every timestamp.
C6_NoWraparound ==
    (CalledWithReset /\ WellFormed(resetStart) /\ WellFormed(resetEnd)
       /\ WindowMs(resetEnd) < WindowMs(resetStart))
        => resetOutcome = Returned(FALSE)

\* C6 witness: window 23:00:00 to 01:00:00, timestamp 23:30:00.
C6_Witness ==
    /\ CalledWithReset
    /\ resetStart = TimeString(23, 0, 0) /\ resetEnd = TimeString(1, 0, 0)
    /\ startTimestamp = Moment(2023, 5, 1, 23, 30, 0, 0)
    /\ resetOutcome = Returned(FALSE)

MalformedInput ==
    \/ resetStart \in MalformedTimeStrings
    \/ resetEnd \in MalformedTimeStrings
    \/ ~startTimestamp.valid

C8_ErrorPropagates ==
    \A w \in Callers :
        /\ \A i \in 1..Len(log[w]) :
              log[w][i].outcome # "ok"
                  => i = Len(log[w]) /\ pc[w] = "rejected" /\ err[w] = log[w][i].outcome
        /\ \A i, j \in 1..Len(log[w]) :
              (log[w][i].op = log[w][j].op /\ log[w][i].row = log[w][j].row
               /\ log[w][i].column = log[w][j].column) => i = j

\* C8 witness: the second insert of a call failed with E2.
C8_Witness ==
    /\ op["w1"] = "insert" /\ pc["w1"] = "rejected" /\ err["w1"] = "E2"
    /\ Len(log["w1"]) = 3
    /\ log["w1"][3].op = "insert"

\* C8 witness for getAll: its query failed.
C8_QueryWitness ==
    /\ op["w1"] = "getAll" /\ pc["w1"] = "rejected" /\ err["w1"] = "E1"

\* C9: with one writer, from the completion of the delete on, whether the call
\* is running, resolved or rejected, the table is the row-major prefix of the
\* array's defined cells that the successful inserts wrote: empty when the first
\* insert failed, and never the previous contents again.
C9_NotAtomic ==
    (op["w1"] = "insert" /\ log["w1"] # << >> /\ log["w1"][1].outcome = "ok")
        => /\ IsPrefix(table, ExpectedRows(cik["w1"]))
           /\ Len(table) = OkInserts("w1")
           /\ (pc["w1"] = "rejected" /\ Len(log["w1"]) = 2) => table = << >>
           /\ pc["w1"] = "resolved" => Len(table) = Len(ExpectedRows(cik["w1"]))

\* C9 witness: the second insert failed: one new row is stored, the two previous
\* rows are gone and the array's second defined cell is missing.
C9_Witness ==
    /\ op["w1"] = "insert" /\ pc["w1"] = "rejected"
    /\ Len(log["w1"]) = 3
    /\ Len(prior["w1"]) = 2
    /\ Len(table) = 1
    /\ Len(ExpectedRows(cik["w1"])) >= 2

\* A field read as a number is the number n with lo <= n <= hi.
NumberWithin(x, lo, hi) == ToNumber(x).k = "num" /\ lo <= ToNumber(x).v /\ ToNumber(x).v <= hi

\* C10: every preferences object a click on the submit button sends differs
\* from the fetched one and has, its fields read as numbers, dates and a
\* duration, MIN_VAL <= minimum value <= maximum value <= MAX_VAL, reading
\* gap >= 0, 0 <= maximum errors <= MAX_ERRORS, 0 <= warning file size <= file
\* size limit, a valid positive reading frequency, and MIN_DATE <= minimum
\* date <= maximum date <= MAX_DATE.
C10_SubmittedPreferencesValid ==
    sent # NoSubmission =>
        /\ sent # adminPreferences
        /\ NumberWithin(sent.defaultMeterMinimumValue, MIN_VAL, MAX_VAL)
        /\ NumberWithin(sent.defaultMeterMaximumValue,
                        ToNumber(sent.defaultMeterMinimumValue).v, MAX_VAL)
        /\ ToNumber(sent.defaultMeterReadingGap).k = "num"
        /\ ToNumber(sent.defaultMeterReadingGap).v >= 0
        /\ NumberWithin(sent.defaultMeterMaximumErrors, 0, MAX_ERRORS)
        /\ ToNumber(sent.defaultFileSizeLimit).k = "num"
        /\ NumberWithin(sent.defaultWarningFileSize, 0, ToNumber(sent.defaultFileSizeLimit).v)
        /\ sent.defaultMeterReadingFrequency.k = "duration"
        /\ sent.defaultMeterReadingFrequency.v > 0
        /\ sent.defaultMeterMinimumDate.k = "date"
        /\ sent.defaultMeterMaximumDate.k = "date"
        /\ MIN_DATE <= sent.defaultMeterMinimumDate.v
        /\ sent.defaultMeterMinimumDate.v <= sent.defaultMeterMaximumDate.v
        /\ sent.defaultMeterMaximumDate.v <= MAX_DATE

\* C10 witness: a click sent preferences in which two validated fields were
\* edited, one to the empty string (read as 0) and one to its upper limit.
C10_Witness ==
    /\ sent # NoSubmission
    /\ sent.defaultMeterMinimumValue = EmptyStr
    /\ sent.defaultMeterMaximumErrors = Str(MAX_ERRORS)

\* The keys in which two preferences objects differ.
DifferingKeys(a, b) == { key \in Keys : a[key] # b[key] }

\* C11 (as stated): after a click on discard and after every response of the
\* preferences query, the re-fetch that follows a submit included, once the
\* effects have run localAdminPref is a copy of the fetched preferences,
\* hasChanges is false and the discard and submit buttons are both disabled.
C11_EveryResponseResetsLocal ==
    event \in {"discard", "response"} =>
        /\ isEqual(localAdminPref, adminPreferences)
        /\ ~hasChanges
        /\ DiscardDisabled
        /\ SubmitDisabled

\* C11, first part: once the effects have run, hasChanges is true exactly when
\* localAdminPref is not deep-equal to the fetched preferences.
C11_HasChangesTracksDifference == hasChanges <=> ~isEqual(localAdminPref, adminPreferences)

\* C11, discard and changed data: after a click on discard, after the first
\* response and after a response that changes the fetched preferences,
\* localAdminPref is a copy of them, hasChanges is false and both buttons are
\* disabled.
C11_DiscardAndNewDataResetLocal ==
    [][(event' = "discard" \/ adminPreferences' # adminPreferences \/ (event' = "response" /\ ~hasData)) =>
           /\ isEqual(localAdminPref', adminPreferences')
           /\ ~hasChanges'
           /\ DiscardDisabled'
           /\ SubmitDisabled']_vars

\* C11, last part: a field edit changes at most the edited key of
\* localAdminPref and leaves the fetched preferences as they are.
C11_EditTouchesOneKey ==
    [][event' = "edit" =>
           /\ adminPreferences' = adminPreferences
           /\ Cardinality(DifferingKeys(localAdminPref', localAdminPref)) <= 1]_vars

\* C11: a state in which a response has just arrived with data deep-equal to
\* the fetched preferences while localAdminPref holds an edit (the text "0"
\* where the number 0 was fetched): the edit is kept and both buttons are
\* enabled.
C11_EditSurvivesResponse ==
    /\ event = "response"
    /\ localAdminPref.defaultMeterReadingGap = Str(0)
    /\ adminPreferences.defaultMeterReadingGap = Num(0)
    /\ hasChanges
    /\ ~DiscardDisabled
    /\ ~SubmitDisabled

====
